---- MODULE Spec2Model ----
(***************************************************************************)
(* Agent process lifecycle of Caspian: the process registry               *)
(* (agents/process.rs), the Claude Code adapter's output channel          *)
(* (agents/claude_code.rs), the output streamer (agents/streaming.rs) and *)
(* the command layer with the persisted session row (commands/agent.rs).  *)
(*                                                                         *)
(* Every registry lock region and every SQL statement is one atomic step, *)
(* except terminate_agent, whose lock region contains the kill of the     *)
(* child: it is two steps with the mutexes held in between.  Commands run *)
(* on caller threads and interleave with each other and with the streamer *)
(* threads.                                                                *)
(***************************************************************************)
EXTENDS Integers, Sequences, FiniteSets, TLC

\* ------------------------------------------------------------------ bounds
MaxProcs == 3
MaxLines == 2
MaxQueue == 2
MaxCalls == 3
MaxConcCalls == 2
MaxTime == 7
MaxRows == 2
MaxDecodes == 3
MaxBlocks == 2
MaxRegCalls == 4
NumExt == 1

Nodes == {"n1"}
Callers == {"t1", "t2"}
CallerRank(t) == IF t = "t1" THEN 1 ELSE 2
MainThread == "t1"

\* ------------------------------------------------------ program constants
\* commands/agent.rs:797
max_retries == 3
\* commands/agent.rs:798
retry_delays_ms == <<500, 1000, 2000>>
\* commands/agent.rs:28
delays_ms == <<100, 200, 300, 400, 500, 600, 700, 800>>

\* ------------------------------------------------------------ identifiers
\* The unset external session id (SQL NULL, read back as '' by COALESCE).
EmptyId == <<"none", 0>>
\* Uuid::new_v4() of the p-th spawned process.
FreshId(p) == <<"uuid", p>>
\* Session ids the external CLI can announce for a conversation of node n.
ExtIds(n) == {<<n, k>> : k \in 1..NumExt}

Range(s) == {s[i] : i \in DOMAIN s}

\* --------------------------------------------------------------- messages
\* Text is a sequence of tokens; contains() is token membership.
contains(text, tok) == tok \in Range(text)

\* AgentError and its Display (thiserror) rendering.
AgentError(kind, payload) == [kind |-> kind, payload |-> payload]

to_string(e) ==
    CASE e.kind = "SpawnError" -> <<"Failed to spawn agent:">> \o e.payload
      [] e.kind = "NotFound" -> <<"Agent process not found:">> \o e.payload
      [] e.kind = "AlreadyRunning" -> <<"Agent process already running for node:">> \o e.payload
      [] e.kind = "TerminateError" -> <<"Failed to terminate agent:">> \o e.payload
      [] e.kind = "IoError" -> <<"IO error:">> \o e.payload
      [] e.kind = "ConfigError" -> <<"Invalid configuration:">> \o e.payload

\* Failures ClaudeCodeAdapter::spawn can return, with the text they carry.
AdapterErrors ==
    { AgentError("SpawnError", <<"Claude CLI not found">>),
      AgentError("SpawnError", <<"Claude CLI returned an error:", "503">>),
      AgentError("ConfigError", <<"Working directory does not exist">>) }

is_transient(last_error) ==
    \/ contains(last_error, "404")
    \/ contains(last_error, "not_found")
    \/ contains(last_error, "temporarily unavailable")
    \/ contains(last_error, "service unavailable")
    \/ contains(last_error, "503")
    \/ contains(last_error, "502")

\* ---------------------------------------------------------- output events
\* AgentOutput { output_type, content }.  The content of a stdout line is
\* kept as the protocol shape it has; line carries the announced session id
\* of an init line.
AgentOutput(type, shape, sid) == [output_type |-> type, shape |-> shape, session_id |-> sid]

\* Lines the stdout and stderr reader threads forward.
ReaderOutputs(n) ==
    {AgentOutput("stdout", "system_init", x) : x \in {EmptyId} \cup ExtIds(n)}
    \cup {AgentOutput("stdout", k, EmptyId) : k \in {"ask_user_question", "result", "raw"}}
    \cup {AgentOutput("stderr", "raw", EmptyId)}

\* The notice of the third adapter thread.
StartedOutput == AgentOutput("system", "raw", EmptyId)

\* Events of the remaining AgentOutputType variants, which an adapter may send.
MarkerOutputs == {AgentOutput(t, "raw", EmptyId) : t \in {"complete", "error", "pending"}}

\* StructuredEvent derived from one line; "None" when the line decodes to nothing.
parse_and_process_json(output) ==
    CASE output.shape = "system_init" -> [event |-> "Init", session_id |-> output.session_id]
      [] output.shape = "ask_user_question" -> [event |-> "UserInputRequest", session_id |-> EmptyId]
      [] output.shape = "result" -> [event |-> "Complete", session_id |-> EmptyId]
      [] OTHER -> [event |-> "None", session_id |-> EmptyId]

structured_event(output) ==
    IF output.output_type = "stdout"
    THEN parse_and_process_json(output)
    ELSE [event |-> "None", session_id |-> EmptyId]

\* ------------------------------------------------------------------ state
VARIABLES
    handles,    \* ProcessManager.handles: session id -> AgentHandle
    metadata,   \* ProcessManager.metadata: session ids with SessionMetadata
    procs,      \* child processes spawned so far, with their output channel
    streamer,   \* the streamer thread started for the i-th spawn (or none)
    db,         \* agent_sessions: node id -> row
    call,       \* the command each caller thread is running
    ret,        \* what the most recently finished command returned
    ncalls,     \* commands invoked so far
    nlines,     \* output lines the reader threads have sent so far
    emitted,    \* what the last step published through app.emit on the output topics
    owner,      \* the thread holding the registry's handles and metadata mutexes
    messages,   \* the agent rows of the messages table, in insertion order
    now,        \* the wall clock, in seconds
    inserting,  \* the insert_agent_message call each streamer thread is in
    decoder,    \* a streamer's decoding state: tool tracker, current message id, last line and event
    mutex,      \* the thread holding each of the registry's two mutexes
    reg,        \* the ProcessManager method each thread is in, at the grain of lock()
    nreg        \* ProcessManager methods called so far at that grain

vars == <<handles, metadata, procs, streamer, db, call, ret, ncalls, nlines,
          emitted, owner, messages, now, inserting, decoder, mutex, reg, nreg>>

\* No thread holds the registry mutexes.
NoOwner == "none"

\* The streamer threads that write chat messages.
Inserters == {"s1", "s2"}

NoInsert == [pc |-> "idle", args |-> <<>>]

\* The locals of a streamer thread before its first line: ToolCallTracker::new(),
\* current_message_id = None; no line decoded yet.
NoDecoder == [tool_tracker |-> [x \in {} |-> 0], current_message_id |-> {},
              line |-> [type |-> "none"], event |-> [event |-> "None"],
              clock |-> 0, ndecoded |-> 0]

\* The threads that call into the registry: the command threads and a streamer thread.
Threads == Callers \cup {"s1"}

\* A thread that is in no ProcessManager method.
NoMethod == [op |-> "none", pc |-> "idle", node |-> "", sid |-> EmptyId, proc |-> 0]

NoRow == [present |-> FALSE, id |-> EmptyId, status |-> "idle", claude_session_id |-> EmptyId, ended |-> FALSE]

NoStreamer == [st |-> "none", rx |-> 0, pending_user_input |-> FALSE, complete_emitted |-> FALSE,
               notifs |-> <<>>, how |-> "", saw_uir |-> FALSE]

NoResult == [ok |-> TRUE, sessions |-> {}, error |-> <<>>]

IdleCall == [op |-> "none", pc |-> "idle", node |-> "", sid |-> EmptyId, resume |-> EmptyId,
             poll |-> 0, waited |-> 0, attempt |-> 0, tries |-> 0, slept |-> 0, proc |-> 0,
             last_error |-> <<>>, upserted |-> FALSE, res |-> NoResult]

NoReturn == [seq |-> 0, op |-> "none", node |-> "", res |-> NoResult]

Init ==
    /\ handles = [s \in {} |-> 0]
    /\ metadata = {}
    /\ procs = <<>>
    /\ streamer = <<>>
    /\ db = [n \in Nodes |-> NoRow]
    /\ call = [t \in Callers |-> IdleCall]
    /\ ret = NoReturn
    /\ ncalls = 0
    /\ nlines = 0
    /\ emitted = <<>>
    /\ owner = NoOwner
    /\ messages = <<>>
    /\ now = 0
    /\ inserting = [k \in Inserters |-> NoInsert]
    /\ decoder = NoDecoder
    /\ mutex = [m \in {"handles", "metadata"} |-> NoOwner]
    /\ reg = [t \in Threads |-> NoMethod]
    /\ nreg = 0

\* ------------------------------------------------------- registry helpers
HandlesOfNode(n) == {s \in DOMAIN handles : handles[s].node_id = n}

MapPut(m, k, v) == [x \in DOMAIN m \cup {k} |-> IF x = k THEN v ELSE m[x]]
MapDel(m, k) == [x \in DOMAIN m \ {k} |-> m[x]]

\* get_session_for_node: a handle of the node whose metadata is present.
get_session_for_node(n) == {s \in HandlesOfNode(n) : s \in metadata}

\* The receiving end of process p's channel is still owned by someone.
ReceiverAlive(p) ==
    \/ \E t \in Callers : call[t].pc = "pm_insert" /\ call[t].proc = p
    \/ \E s \in DOMAIN handles : handles[s].proc = p /\ handles[s].output_rx
    \/ \E i \in DOMAIN streamer : streamer[i].rx = p /\ streamer[i].st = "draining"

\* The receiving end of a channel was dropped: what is queued is lost and every
\* sender stops at its next send.
Disconnected(proc) == [proc EXCEPT !.out = <<>>, !.started = TRUE, !.eof = TRUE]

\* Dropping the handle stored under session_id drops the receiver it still holds.
DropHandle(ps, session_id) ==
    IF session_id \in DOMAIN handles /\ handles[session_id].output_rx
    THEN [ps EXCEPT ![handles[session_id].proc] = Disconnected(@)]
    ELSE ps

\* All three senders of process p's channel are gone.
ChannelClosed(p) == procs[p].eof /\ procs[p].started

\* ------------------------------------------------------------ session row
\* UPDATE agent_sessions SET status, ended_at WHERE node_id
update_session_status(d, n, status, success) ==
    LET final_status == IF success THEN status ELSE "failed"
    IN  IF d[n].present
        THEN [d EXCEPT ![n].status = final_status, ![n].ended = TRUE]
        ELSE d

\* Variant: the UPDATE matches no row.
update_claude_session_id_skip(d, n, claude_session_id) == d

\* UPDATE agent_sessions SET claude_session_id WHERE node_id
update_claude_session_id(d, n, claude_session_id) ==
    IF d[n].present
    THEN [d EXCEPT ![n].claude_session_id = claude_session_id]
    ELSE d

\* Variant: the conflict branch does not reset claude_session_id.
upsert_agent_session_keep(d, n, caspian_session_id, status) ==
    IF d[n].present
    THEN [d EXCEPT ![n].id = caspian_session_id, ![n].status = status]
    ELSE [d EXCEPT ![n] = [present |-> TRUE, id |-> caspian_session_id, status |-> status,
                           claude_session_id |-> EmptyId, ended |-> FALSE]]

\* INSERT ... ON CONFLICT(node_id) DO UPDATE SET id, status, started_at, claude_session_id = NULL
upsert_agent_session(d, n, caspian_session_id, status) ==
    IF d[n].present
    THEN [d EXCEPT ![n].id = caspian_session_id, ![n].status = status,
                   ![n].claude_session_id = EmptyId]
    ELSE [d EXCEPT ![n] = [present |-> TRUE, id |-> caspian_session_id, status |-> status,
                           claude_session_id |-> EmptyId, ended |-> FALSE]]

\* The AgentSession a query builds from a row.
SessionOf(d, n) == [node_id |-> n, id |-> d[n].id, status |-> d[n].status]

\* get_session_from_db: Option<AgentSession> as a set of at most one element.
get_session_from_db(d, n) == IF d[n].present THEN {SessionOf(d, n)} ELSE {}

\* ------------------------------------------------------- command plumbing
\* Caller threads are interchangeable: a new command goes to the first idle one.
CanInvoke(t) ==
    /\ call[t].pc = "idle"
    /\ ncalls < MaxCalls
    /\ \A u \in Callers : call[u].pc = "idle" => CallerRank(t) <= CallerRank(u)

Begin(t, op, n) == [IdleCall EXCEPT !.op = op, !.node = n]

\* The command returns res: marks the record of the call as finished.
Return(c, res) == [c EXCEPT !.pc = "done", !.res = res]

\* Store the caller's next position; a finished command leaves its result in
\* ret and frees the caller thread.
Commit(t, c) ==
    IF c.pc = "done"
    THEN /\ call' = [call EXCEPT ![t] = IdleCall]
         /\ ret' = [seq |-> ret.seq + 1, op |-> c.op, node |-> c.node, res |-> c.res]
    ELSE /\ call' = [call EXCEPT ![t] = c]
         /\ UNCHANGED ret

Ok(sessions) == [ok |-> TRUE, sessions |-> sessions, error |-> <<>>]
Err(text) == [ok |-> FALSE, sessions |-> {}, error |-> text]

\* ------------------------------------------- commands::agent::spawn_agent
\* Entry: get_session_from_db, then branch on a stored Running status.
SpawnAgent(t, n) ==
    /\ CanInvoke(t)
    /\ ncalls' = ncalls + 1
    /\ Commit(t,
            [Begin(t, "spawn_agent", n) EXCEPT !.pc =
                IF db[n].present /\ db[n].status = "running" THEN "sp_live" ELSE "sp_resume"])
    /\ UNCHANGED <<handles, metadata, procs, streamer, db, nlines>>
    /\ emitted' = <<>>
    /\ UNCHANGED <<owner, messages, now, inserting, decoder, mutex, reg, nreg>>

\* Stored status is Running: ask the registry whether the agent is live.
SpLive(t) ==
    /\ call[t].pc = "sp_live"
    /\ owner = NoOwner
    /\ Commit(t,
            IF get_session_for_node(call[t].node) # {}
            THEN Return(call[t], Err(<<"Agent already running for this node">>))
            ELSE [call[t] EXCEPT !.pc = "sp_fail"])
    /\ UNCHANGED <<handles, metadata, procs, streamer, db, ncalls, nlines>>
    /\ emitted' = <<>>
    /\ UNCHANGED <<owner, messages, now, inserting, decoder, mutex, reg, nreg>>

\* The process died but the row was not updated: mark it failed.
SpFail(t) ==
    /\ call[t].pc = "sp_fail"
    /\ db' = update_session_status(db, call[t].node, "failed", FALSE)
    /\ Commit(t, [call[t] EXCEPT !.pc = "sp_resume"])
    /\ UNCHANGED <<handles, metadata, procs, streamer, ncalls, nlines>>
    /\ emitted' = <<>>
    /\ UNCHANGED <<owner, messages, now, inserting, decoder, mutex, reg, nreg>>

\* get_session_for_node (row): resume the stored external session if there is one.
SpResume(t) ==
    /\ call[t].pc = "sp_resume"
    /\ LET row == db[call[t].node]
       IN  Commit(t, [call[t] EXCEPT !.pc = "pm_check",
                                     !.resume = IF row.present /\ row.claude_session_id # EmptyId
                                                THEN row.claude_session_id ELSE EmptyId])
    /\ UNCHANGED <<handles, metadata, procs, streamer, db, ncalls, nlines>>
    /\ emitted' = <<>>
    /\ UNCHANGED <<owner, messages, now, inserting, decoder, mutex, reg, nreg>>

\* --------------------------------------------- ProcessManager::spawn_agent
\* Variant: the error of the last attempt is wrapped in a summary message.
SpawnFailed_wrapped(c, e) ==
    IF c.op = "spawn_agent"
    THEN Return(c, Err(to_string(e)))
    ELSE LET last_error == to_string(e)
         IN  IF is_transient(last_error) /\ c.attempt < max_retries - 1
             THEN [c EXCEPT !.pc = "pm_check", !.attempt = c.attempt + 1,
                            !.last_error = last_error,
                            !.slept = retry_delays_ms[c.attempt + 1]]
             ELSE IF c.attempt = max_retries - 1
                  THEN Return(c, Err(<<"Failed to resume agent after retries:">> \o last_error))
                  ELSE Return(c, Err(last_error))

\* Variant: the retry bound is off by one.
SpawnFailed_extra(c, e) ==
    IF c.op = "spawn_agent"
    THEN Return(c, Err(to_string(e)))
    ELSE LET last_error == to_string(e)
         IN  IF is_transient(last_error) /\ c.attempt < max_retries
             THEN [c EXCEPT !.pc = "pm_check", !.attempt = c.attempt + 1,
                            !.last_error = last_error,
                            !.slept = retry_delays_ms[IF c.attempt < Len(retry_delays_ms) THEN c.attempt + 1 ELSE Len(retry_delays_ms)]]
             ELSE Return(c, Err(last_error))

\* What the calling command does with Err(e) from ProcessManager::spawn_agent.
SpawnFailed(c, e) ==
    IF c.op = "spawn_agent"
    THEN Return(c, Err(to_string(e)))
    ELSE LET last_error == to_string(e)
         IN  IF is_transient(last_error) /\ c.attempt < max_retries - 1
             THEN [c EXCEPT !.pc = "pm_check", !.attempt = c.attempt + 1,
                            !.last_error = last_error,
                            !.slept = retry_delays_ms[c.attempt + 1]]
             ELSE Return(c, Err(last_error))

\* First lock region: the already-running check.
PmCheck(t) ==
    /\ call[t].pc = "pm_check"
    /\ owner = NoOwner
    /\ LET c == [call[t] EXCEPT !.tries = @ + 1]
       IN  Commit(t,
                IF HandlesOfNode(c.node) # {}
                THEN SpawnFailed(c, AgentError("AlreadyRunning", <<c.node>>))
                ELSE [c EXCEPT !.pc = "pm_adapter"])
    /\ UNCHANGED <<handles, metadata, procs, streamer, db, ncalls, nlines>>
    /\ emitted' = <<>>
    /\ UNCHANGED <<owner, messages, now, inserting, decoder, mutex, reg, nreg>>

\* adapter.spawn(config) fails a prerequisite check or the OS spawn.
PmAdapterErr(t) ==
    /\ call[t].pc = "pm_adapter"
    /\ \E e \in AdapterErrors : Commit(t, SpawnFailed(call[t], e))
    /\ UNCHANGED <<handles, metadata, procs, streamer, db, ncalls, nlines>>
    /\ emitted' = <<>>
    /\ UNCHANGED <<owner, messages, now, inserting, decoder, mutex, reg, nreg>>

\* adapter.spawn(config) creates the child process and its channel.
PmAdapterOk(t) ==
    /\ call[t].pc = "pm_adapter"
    /\ Len(procs) < MaxProcs
    /\ LET p == Len(procs) + 1
           session_id == IF call[t].resume # EmptyId THEN call[t].resume ELSE FreshId(p)
       IN  /\ procs' = Append(procs, [node_id |-> call[t].node, id |-> session_id, out |-> <<>>,
                                      started |-> FALSE, eof |-> FALSE])
           /\ streamer' = Append(streamer, NoStreamer)
           /\ Commit(t, [call[t] EXCEPT !.pc = "pm_insert", !.proc = p])
    /\ UNCHANGED <<handles, metadata, db, ncalls, nlines>>
    /\ emitted' = <<>>
    /\ UNCHANGED <<owner, messages, now, inserting, decoder, mutex, reg, nreg>>

\* Second lock region: store the handle and its metadata.
PmInsert(t) ==
    /\ call[t].pc = "pm_insert"
    /\ owner = NoOwner
    /\ LET p == call[t].proc
       IN  /\ handles' = MapPut(handles, procs[p].id,
                                [proc |-> p, node_id |-> procs[p].node_id, output_rx |-> TRUE])
           /\ metadata' = metadata \cup {procs[p].id}
           /\ procs' = DropHandle(procs, procs[p].id)
    /\ Commit(t, [call[t] EXCEPT !.pc = "upsert"])
    /\ UNCHANGED <<streamer, db, ncalls, nlines>>
    /\ emitted' = <<>>
    /\ UNCHANGED <<owner, messages, now, inserting, decoder, mutex, reg, nreg>>

\* Ok(session): upsert_agent_session(node, .., session.id, .., "running").
Upsert(t) ==
    /\ call[t].pc = "upsert"
    /\ db' = upsert_agent_session(db, call[t].node, procs[call[t].proc].id, "running")
    /\ Commit(t, [call[t] EXCEPT !.pc = "take", !.upserted = TRUE])
    /\ UNCHANGED <<handles, metadata, procs, streamer, ncalls, nlines>>
    /\ emitted' = <<>>
    /\ UNCHANGED <<owner, messages, now, inserting, decoder, mutex, reg, nreg>>

\* Variant: take_receiver leaves the receiver in the handle.
Take_clone(t) ==
    /\ call[t].pc = "take"
    /\ owner = NoOwner
    /\ LET p == call[t].proc
           sid == procs[p].id
           session == [node_id |-> procs[p].node_id, id |-> sid, status |-> "running"]
       IN  /\ IF sid \in DOMAIN handles /\ handles[sid].output_rx
              THEN /\ streamer' = [streamer EXCEPT ![p] =
                            [NoStreamer EXCEPT !.st = "draining", !.rx = handles[sid].proc]]
                   /\ UNCHANGED handles
              ELSE UNCHANGED <<handles, streamer>>
           /\ Commit(t, Return(call[t], Ok({session})))
    /\ UNCHANGED <<metadata, procs, db, ncalls, nlines>>
    /\ emitted' = <<>>
    /\ UNCHANGED <<owner, messages, now, inserting, decoder, mutex, reg, nreg>>

\* take_receiver(session.id), start_streaming on the receiver, return the session.
Take(t) ==
    /\ call[t].pc = "take"
    /\ owner = NoOwner
    /\ LET p == call[t].proc
           sid == procs[p].id
           session == [node_id |-> procs[p].node_id, id |-> sid, status |-> "running"]
       IN  /\ IF sid \in DOMAIN handles /\ handles[sid].output_rx
              THEN /\ handles' = [handles EXCEPT ![sid].output_rx = FALSE]
                   /\ streamer' = [streamer EXCEPT ![p] =
                            [NoStreamer EXCEPT !.st = "draining", !.rx = handles[sid].proc]]
              ELSE UNCHANGED <<handles, streamer>>
           /\ Commit(t, Return(call[t], Ok({session})))
    /\ UNCHANGED <<metadata, procs, db, ncalls, nlines>>
    /\ emitted' = <<>>
    /\ UNCHANGED <<owner, messages, now, inserting, decoder, mutex, reg, nreg>>

\* ----------------------------------------- ProcessManager termination path
\* terminate_agent_for_node, first lock region: find a handle of the node.
\* HashMap iteration order decides which one when there are several.
FindForNode(c) ==
    IF HandlesOfNode(c.node) = {}
    THEN {IF c.op = "resume_agent_with_input"
          THEN [c EXCEPT !.pc = "wait"]
          ELSE Return(c, Err(to_string(AgentError("NotFound", <<"No agent for node", c.node>>))))}
    ELSE {[c EXCEPT !.pc = "term", !.sid = s] : s \in HandlesOfNode(c.node)}

\* The body of terminate_agent(session_id) once the handle is found:
\* adapter.terminate(handle) kills the child, then both entries are dropped.
terminate_agent(session_id) ==
    /\ handles' = MapDel(handles, session_id)
    /\ metadata' = metadata \ {session_id}
    /\ procs' = DropHandle(procs, session_id)

\* terminate_agent(session_id): take both mutexes and look the handle up.
Term(t) ==
    /\ call[t].pc = "term"
    /\ owner = NoOwner
    /\ IF call[t].sid \in DOMAIN handles
       THEN /\ owner' = t
            /\ Commit(t, [call[t] EXCEPT !.pc = "term_kill"])
       ELSE /\ owner' = owner
            /\ Commit(t,
                    IF call[t].op = "resume_agent_with_input"
                    THEN [call[t] EXCEPT !.pc = "wait", !.sid = EmptyId]
                    ELSE Return(call[t], Err(to_string(AgentError("NotFound", <<call[t].sid>>)))))
    /\ UNCHANGED <<handles, metadata, procs, streamer, db, ncalls, nlines>>
    /\ emitted' = <<>>
    /\ UNCHANGED <<messages, now, inserting, decoder, mutex, reg, nreg>>

\* Still holding both mutexes: kill the child, drop the entries, unlock.
TermKill(t) ==
    /\ call[t].pc = "term_kill"
    /\ owner = t
    /\ terminate_agent(call[t].sid)
    /\ owner' = NoOwner
    /\ Commit(t,
            IF call[t].op = "resume_agent_with_input"
            THEN [call[t] EXCEPT !.pc = "wait", !.sid = EmptyId]
            ELSE Return(call[t], Ok({})))
    /\ UNCHANGED <<streamer, db, ncalls, nlines>>
    /\ emitted' = <<>>
    /\ UNCHANGED <<messages, now, inserting, decoder, mutex, reg, nreg>>

\* Variant: an unknown session id is answered with success.
TerminateAgent_silent(t, session_id) ==
    /\ CanInvoke(t)
    /\ owner = NoOwner
    /\ ncalls' = ncalls + 1
    /\ IF session_id \in DOMAIN handles
       THEN /\ owner' = t
            /\ Commit(t, [Begin(t, "terminate_agent", "") EXCEPT !.pc = "term_kill", !.sid = session_id])
       ELSE /\ owner' = owner
            /\ Commit(t, Return(Begin(t, "terminate_agent", ""), Ok({})))
    /\ UNCHANGED <<handles, metadata, procs, streamer, db, nlines>>
    /\ emitted' = <<>>
    /\ UNCHANGED <<messages, now, inserting, decoder, mutex, reg, nreg>>

\* commands::agent::terminate_agent(session_id), up to the lookup under the mutexes.
TerminateAgent(t, session_id) ==
    /\ CanInvoke(t)
    /\ owner = NoOwner
    /\ ncalls' = ncalls + 1
    /\ IF session_id \in DOMAIN handles
       THEN /\ owner' = t
            /\ Commit(t, [Begin(t, "terminate_agent", "") EXCEPT !.pc = "term_kill", !.sid = session_id])
       ELSE /\ owner' = owner
            /\ Commit(t, Return(Begin(t, "terminate_agent", ""),
                            Err(to_string(AgentError("NotFound", <<session_id>>)))))
    /\ UNCHANGED <<handles, metadata, procs, streamer, db, nlines>>
    /\ emitted' = <<>>
    /\ UNCHANGED <<messages, now, inserting, decoder, mutex, reg, nreg>>

\* commands::agent::terminate_agent_for_node: status update first, then the registry.
TerminateAgentForNode(t, n) ==
    /\ CanInvoke(t)
    /\ ncalls' = ncalls + 1
    /\ db' = update_session_status(db, n, "terminated", FALSE)
    /\ Commit(t, [Begin(t, "terminate_agent_for_node", n) EXCEPT !.pc = "find"])
    /\ UNCHANGED <<handles, metadata, procs, streamer, nlines>>
    /\ emitted' = <<>>
    /\ UNCHANGED <<owner, messages, now, inserting, decoder, mutex, reg, nreg>>

Find(t) ==
    /\ call[t].pc = "find"
    /\ owner = NoOwner
    /\ \E c \in FindForNode(call[t]) : Commit(t, c)
    /\ UNCHANGED <<handles, metadata, procs, streamer, db, ncalls, nlines>>
    /\ emitted' = <<>>
    /\ UNCHANGED <<owner, messages, now, inserting, decoder, mutex, reg, nreg>>

\* ------------------------------- commands::agent::resume_agent_with_input
\* Entry: terminate_agent_for_node(node), result ignored.
ResumeAgentWithInput(t, n) ==
    /\ CanInvoke(t)
    /\ owner = NoOwner
    /\ ncalls' = ncalls + 1
    /\ \E c \in FindForNode(Begin(t, "resume_agent_with_input", n)) :
            Commit(t, c)
    /\ UNCHANGED <<handles, metadata, procs, streamer, db, nlines>>
    /\ emitted' = <<>>
    /\ UNCHANGED <<owner, messages, now, inserting, decoder, mutex, reg, nreg>>

\* Variant: any record counts, whatever its claude_session_id.
has_claude_session_id_any(row) == row.present

\* Some(id) with !id.is_empty(): the record exists and carries an external id.
has_claude_session_id(row) == row.present /\ row.claude_session_id # EmptyId

\* One iteration of wait_for_claude_session_id's polling loop.
Wait(t) ==
    /\ call[t].pc = "wait"
    /\ LET c == call[t]
           row == db[c.node]
           attempt == c.poll
       IN  Commit(t,
                IF has_claude_session_id(row)
                THEN [c EXCEPT !.pc = "pm_check", !.resume = row.claude_session_id]
                ELSE [c EXCEPT !.poll = attempt + 1,
                               !.waited = IF attempt < Len(delays_ms) - 1
                                          THEN c.waited + delays_ms[attempt + 1] ELSE c.waited,
                               !.pc = IF attempt + 1 < Len(delays_ms) THEN "wait" ELSE "wait_final"])
    /\ UNCHANGED <<handles, metadata, procs, streamer, db, ncalls, nlines>>
    /\ emitted' = <<>>
    /\ UNCHANGED <<owner, messages, now, inserting, decoder, mutex, reg, nreg>>

\* The final read after the loop; an error here refuses the resume.
WaitFinal(t) ==
    /\ call[t].pc = "wait_final"
    /\ LET c == call[t]
           row == db[c.node]
       IN  Commit(t,
                IF has_claude_session_id(row)
                THEN [c EXCEPT !.pc = "pm_check", !.resume = row.claude_session_id]
                ELSE IF row.present
                     THEN Return(c, Err(<<"Cannot resume agent:", "Claude session ID is still NULL/empty">>))
                     ELSE Return(c, Err(<<"Cannot resume agent:", "No agent session found">>)))
    /\ UNCHANGED <<handles, metadata, procs, streamer, db, ncalls, nlines>>
    /\ emitted' = <<>>
    /\ UNCHANGED <<owner, messages, now, inserting, decoder, mutex, reg, nreg>>

\* ------------------------------------------------------- status queries
\* commands::agent::get_agent_status: read the row, then verify Running.
GetAgentStatus(t, n) ==
    /\ CanInvoke(t)
    /\ ncalls' = ncalls + 1
    /\ LET c == Begin(t, "get_agent_status", n)
       IN  Commit(t,
                IF db[n].present /\ db[n].status = "running"
                THEN [c EXCEPT !.pc = "gs_check", !.sid = db[n].id]
                ELSE Return(c, Ok(get_session_from_db(db, n))))
    /\ UNCHANGED <<handles, metadata, procs, streamer, db, nlines>>
    /\ emitted' = <<>>
    /\ UNCHANGED <<owner, messages, now, inserting, decoder, mutex, reg, nreg>>

GsCheck(t) ==
    /\ call[t].pc = "gs_check"
    /\ owner = NoOwner
    /\ LET c == call[t]
       IN  Commit(t,
                IF get_session_for_node(c.node) = {}
                THEN [c EXCEPT !.pc = "gs_fix"]
                ELSE Return(c, Ok({[node_id |-> c.node, id |-> c.sid, status |-> "running"]})))
    /\ UNCHANGED <<handles, metadata, procs, streamer, db, ncalls, nlines>>
    /\ emitted' = <<>>
    /\ UNCHANGED <<owner, messages, now, inserting, decoder, mutex, reg, nreg>>

GsFix(t) ==
    /\ call[t].pc = "gs_fix"
    /\ db' = update_session_status(db, call[t].node, "failed", FALSE)
    /\ Commit(t, [call[t] EXCEPT !.pc = "gs_reread"])
    /\ UNCHANGED <<handles, metadata, procs, streamer, ncalls, nlines>>
    /\ emitted' = <<>>
    /\ UNCHANGED <<owner, messages, now, inserting, decoder, mutex, reg, nreg>>

GsReread(t) ==
    /\ call[t].pc = "gs_reread"
    /\ Commit(t, Return(call[t], Ok(get_session_from_db(db, call[t].node))))
    /\ UNCHANGED <<handles, metadata, procs, streamer, db, ncalls, nlines>>
    /\ emitted' = <<>>
    /\ UNCHANGED <<owner, messages, now, inserting, decoder, mutex, reg, nreg>>

\* commands::agent::list_active_agents: every row, as stored.
ListActiveAgents(t) ==
    /\ CanInvoke(t)
    /\ ncalls' = ncalls + 1
    /\ Commit(t, Return(Begin(t, "list_active_agents", ""),
                    Ok({SessionOf(db, n) : n \in {m \in Nodes : db[m].present}})))
    /\ UNCHANGED <<handles, metadata, procs, streamer, db, nlines>>
    /\ emitted' = <<>>
    /\ UNCHANGED <<owner, messages, now, inserting, decoder, mutex, reg, nreg>>

\* commands::agent::get_agent_statuses_batch: the rows of the given nodes, as stored.
GetAgentStatusesBatch(t, node_ids) ==
    /\ CanInvoke(t)
    /\ ncalls' = ncalls + 1
    /\ Commit(t, Return(Begin(t, "get_agent_statuses_batch", ""),
                    Ok({SessionOf(db, n) : n \in {m \in node_ids : db[m].present}})))
    /\ UNCHANGED <<handles, metadata, procs, streamer, db, nlines>>
    /\ emitted' = <<>>
    /\ UNCHANGED <<owner, messages, now, inserting, decoder, mutex, reg, nreg>>

\* ------------------------------------------ adapter threads of process p
\* tx.send(output): queued while the receiving end exists, otherwise an error.
Send(p, output) ==
    procs' = [procs EXCEPT ![p].out = IF ReceiverAlive(p) THEN Append(@, output) ELSE @]

\* stdout / stderr reader: forward one line.
ReaderSend(p) ==
    /\ ~procs[p].eof
    /\ nlines < MaxLines
    /\ Len(procs[p].out) < MaxQueue
    /\ \E output \in ReaderOutputs(procs[p].node_id) : Send(p, output)
    /\ nlines' = nlines + 1
    /\ UNCHANGED <<handles, metadata, streamer, db, call, ret, ncalls>>
    /\ emitted' = <<>>
    /\ UNCHANGED <<owner, messages, now, inserting, decoder, mutex, reg, nreg>>

\* An adapter sending one of the marker variants of AgentOutputType.
MarkerSend(p) ==
    /\ ~procs[p].eof
    /\ nlines < MaxLines
    /\ Len(procs[p].out) < MaxQueue
    /\ \E output \in MarkerOutputs : Send(p, output)
    /\ nlines' = nlines + 1
    /\ UNCHANGED <<handles, metadata, streamer, db, call, ret, ncalls>>
    /\ emitted' = <<>>
    /\ UNCHANGED <<owner, messages, now, inserting, decoder, mutex, reg, nreg>>

\* Third thread: after 100 ms send the "Agent started" notice and drop the sender.
StartedSend(p) ==
    /\ ~procs[p].started
    /\ Len(procs[p].out) < MaxQueue
    /\ procs' = [procs EXCEPT ![p].out = IF ReceiverAlive(p) THEN Append(@, StartedOutput) ELSE @,
                              ![p].started = TRUE]
    /\ UNCHANGED <<handles, metadata, streamer, db, call, ret, ncalls, nlines>>
    /\ emitted' = <<>>
    /\ UNCHANGED <<owner, messages, now, inserting, decoder, mutex, reg, nreg>>

\* The child's pipes close: both readers finish and drop their senders.
ReaderEof(p) ==
    /\ ~procs[p].eof
    /\ procs' = [procs EXCEPT ![p].eof = TRUE]
    /\ UNCHANGED <<handles, metadata, streamer, db, call, ret, ncalls, nlines>>
    /\ emitted' = <<>>
    /\ UNCHANGED <<owner, messages, now, inserting, decoder, mutex, reg, nreg>>

\* ------------------------------------- OutputStreamer::start_streaming
\* AgentCompleteEvent { success, message } as emitted on agent:complete.
AgentCompleteEvent(success, message) == [success |-> success, message |-> message]

\* Variant: the failure notification carries a fixed text.
error_message_fixed(content) == "Agent failed"

\* message: Some(content_for_error), the content of the received output.
error_message(content) == content

\* Variant: the flag is set but the event is not emitted.
emit_complete_silent(me, success, message) == [me EXCEPT !.complete_emitted = TRUE]

\* if !complete_emitted { emit agent:complete; complete_emitted = true }
emit_complete(me, success, message) ==
    [me EXCEPT !.complete_emitted = TRUE,
               !.notifs = IF me.complete_emitted THEN @
                          ELSE Append(@, AgentCompleteEvent(success, message))]

\* AgentOutputEvent built from a received output and what it decoded to.
AgentOutputEvent(session_id, node_id, output, structured) ==
    [session_id |-> session_id, node_id |-> node_id, output_type |-> output.output_type,
     content |-> output.shape, structured |-> structured]

\* Variant: only outputs that decode to a structured event are published.
publish_decoded(node_id, event) ==
    IF event.structured.event = "None"
    THEN <<>>
    ELSE << [topic |-> <<"agent:output", node_id>>, event |-> event],
            [topic |-> <<"agent:output">>, event |-> event] >>

\* app.emit("agent:output:{node_id}", &event); app.emit("agent:output", &event).
publish(node_id, event) ==
    << [topic |-> <<"agent:output", node_id>>, event |-> event],
       [topic |-> <<"agent:output">>, event |-> event] >>

\* One iteration of the loop with rx.recv() = Ok(output).
StreamerRecv(i) ==
    /\ streamer[i].st = "draining"
    /\ procs[streamer[i].rx].out # <<>>
    /\ LET r == streamer[i].rx
           node_id == procs[i].node_id
           output == Head(procs[r].out)
           ev == structured_event(output)
           db1 == IF ev.event = "Init" /\ ev.session_id # EmptyId
                  THEN update_claude_session_id(db, node_id, ev.session_id)
                  ELSE db
           pending == streamer[i].pending_user_input \/ ev.event = "UserInputRequest"
           me == [streamer[i] EXCEPT !.pending_user_input = pending,
                                     !.saw_uir = @ \/ ev.event = "UserInputRequest"]
       IN  /\ procs' = [procs EXCEPT ![r].out = Tail(@)]
           /\ CASE output.output_type = "complete" ->
                    /\ db' = update_session_status(db1, node_id, "completed", TRUE)
                    /\ streamer' = [streamer EXCEPT ![i] =
                            [emit_complete(me, TRUE, "Agent completed successfully") EXCEPT !.st = "ending", !.how = "complete"]]
                [] output.output_type = "error" ->
                    /\ db' = update_session_status(db1, node_id, "failed", FALSE)
                    /\ streamer' = [streamer EXCEPT ![i] =
                            [emit_complete(me, FALSE, error_message(output.shape)) EXCEPT !.st = "ending", !.how = "error"]]
                [] OTHER ->
                    /\ db' = db1
                    /\ streamer' = [streamer EXCEPT ![i] = me]
    /\ UNCHANGED <<handles, metadata, call, ret, ncalls, nlines>>
    /\ emitted' = publish(procs[i].node_id,
                AgentOutputEvent(procs[i].id, procs[i].node_id, Head(procs[streamer[i].rx].out),
                                 structured_event(Head(procs[streamer[i].rx].out))))
    /\ UNCHANGED <<owner, messages, now, inserting, decoder, mutex, reg, nreg>>

\* Variant: the closure branch does not look at pending_user_input.
StreamerClosed_unconditional(i) ==
    /\ streamer[i].st = "draining"
    /\ procs[streamer[i].rx].out = <<>>
    /\ ChannelClosed(streamer[i].rx)
    /\ db' = update_session_status(db, procs[i].node_id, "completed", TRUE)
    /\ streamer' = [streamer EXCEPT ![i] =
            [emit_complete(streamer[i], TRUE, "Agent process ended") EXCEPT !.st = "ending", !.how = "closed"]]
    /\ UNCHANGED <<handles, metadata, procs, call, ret, ncalls, nlines>>
    /\ emitted' = <<>>
    /\ UNCHANGED <<owner, messages, now, inserting, decoder, mutex, reg, nreg>>

\* rx.recv() = Err: every sender is gone and the queue is drained.
StreamerClosed(i) ==
    /\ streamer[i].st = "draining"
    /\ procs[streamer[i].rx].out = <<>>
    /\ ChannelClosed(streamer[i].rx)
    /\ LET node_id == procs[i].node_id
           me == streamer[i]
       IN  IF me.pending_user_input
           THEN /\ db' = update_session_status(db, node_id, "pending", TRUE)
                /\ streamer' = [streamer EXCEPT ![i] = [me EXCEPT !.st = "ending", !.how = "closed"]]
           ELSE /\ db' = update_session_status(db, node_id, "completed", TRUE)
                /\ streamer' = [streamer EXCEPT ![i] =
                        [emit_complete(me, TRUE, "Agent process ended") EXCEPT !.st = "ending", !.how = "closed"]]
    /\ UNCHANGED <<handles, metadata, procs, call, ret, ncalls, nlines>>
    /\ emitted' = <<>>
    /\ UNCHANGED <<owner, messages, now, inserting, decoder, mutex, reg, nreg>>

\* Variant: the thread ends without remove_handle.
StreamerCleanup_keep(i) ==
    /\ streamer[i].st = "ending"
    /\ owner = NoOwner
    /\ streamer' = [streamer EXCEPT ![i] = [NoStreamer EXCEPT !.st = "done"]]
    /\ procs' = [procs EXCEPT ![streamer[i].rx] = Disconnected(@)]
    /\ UNCHANGED <<handles, metadata, db, call, ret, ncalls, nlines>>
    /\ emitted' = <<>>
    /\ UNCHANGED <<owner, messages, now, inserting, decoder, mutex, reg, nreg>>

\* After the loop: remove_handle(session_id); the thread ends and drops rx.
StreamerCleanup(i) ==
    /\ streamer[i].st = "ending"
    /\ owner = NoOwner
    /\ handles' = MapDel(handles, procs[i].id)
    /\ streamer' = [streamer EXCEPT ![i] = [NoStreamer EXCEPT !.st = "done"]]
    /\ procs' = [DropHandle(procs, procs[i].id) EXCEPT ![streamer[i].rx] = Disconnected(@)]
    /\ UNCHANGED <<metadata, db, call, ret, ncalls, nlines>>
    /\ emitted' = <<>>
    /\ UNCHANGED <<owner, messages, now, inserting, decoder, mutex, reg, nreg>>

\* ------------------------------------------- streaming.rs: chat messages
\* The window insert_agent_message passes to check_duplicate_message (streaming.rs:465).
window_seconds == 5

\* Arguments of insert_agent_message.  Two streamers of one node can carry the
\* same session id, because a resumed session takes the resume id as its id.
MessageArgs ==
    [node_id : Nodes,
     session_id : {FreshId(1)} \cup UNION {ExtIds(n) : n \in Nodes},
     content : {"a", "b"},
     message_type : {"code", "error"}]

\* SELECT COUNT(*) FROM messages WHERE node_id, sender_id, content,
\* message_type match AND created_at > Utc::now() - window_seconds.
check_duplicate_message(rows, a, window) ==
    \E i \in DOMAIN rows :
        /\ rows[i].node_id = a.node_id
        /\ rows[i].sender_id = a.session_id
        /\ rows[i].content = a.content
        /\ rows[i].message_type = a.message_type
        /\ rows[i].created_at > now - window

\* insert_agent_message up to the duplicate check: a duplicate ends the call.
InsertCheck(k, a) ==
    /\ inserting[k].pc = "idle"
    /\ Len(messages) + Cardinality({j \in Inserters : inserting[j].pc = "checked"}) < MaxRows
    /\ inserting' = IF check_duplicate_message(messages, a, window_seconds)
                    THEN inserting
                    ELSE [inserting EXCEPT ![k] = [pc |-> "checked", args |-> a]]
    /\ UNCHANGED <<messages, now>>
    /\ UNCHANGED <<handles, metadata, procs, streamer, db, call, ret, ncalls, nlines, emitted, owner, decoder, mutex, reg, nreg>>

\* insert_agent_message after the check: INSERT with created_at = Utc::now().
InsertWrite(k) ==
    /\ inserting[k].pc = "checked"
    /\ LET a == inserting[k].args
       IN  messages' = Append(messages,
                [node_id |-> a.node_id, sender_id |-> a.session_id, content |-> a.content,
                 message_type |-> a.message_type, created_at |-> now])
    /\ inserting' = [inserting EXCEPT ![k] = NoInsert]
    /\ UNCHANGED now
    /\ UNCHANGED <<handles, metadata, procs, streamer, db, call, ret, ncalls, nlines, emitted, owner, decoder, mutex, reg, nreg>>

\* A second passes on the wall clock.
Tick ==
    /\ now < MaxTime
    /\ now' = now + 1
    /\ UNCHANGED <<messages, inserting>>
    /\ UNCHANGED <<handles, metadata, procs, streamer, db, call, ret, ncalls, nlines, emitted, owner, decoder, mutex, reg, nreg>>

\* The streamer threads writing chat messages while time passes.
MsgNext ==
    \/ \E k \in Inserters : \E a \in MessageArgs : InsertCheck(k, a)
    \/ \E k \in Inserters : InsertWrite(k)
    \/ Tick

MsgSpec == Init /\ [][MsgNext]_vars

\* ------------------------------------------ streaming.rs: the line decoder
\* Option<T> is the set of at most one element.
Some(x) == {x}

\* A JSON array, and a key that is missing or holds a value of another type
\* (input.get(key)?.as_array()? gives None for both).
Arr(items) == [kind |-> "array", items |-> items]
Missing == [kind |-> "missing", items |-> <<>>]

ToolIds == {"tu1", "tu2"}
MessageIds == {"m1", "m2"}

\* Entries of an options array: label is a string, or missing.
OptionArrays ==
    { Arr(<<>>),
      Arr(<<[label |-> "l"]>>),
      Arr(<<[label |-> "missing"]>>),
      Arr(<<[label |-> "missing"], [label |-> "l"]>>) }

\* Entries of a questions array.
Questions == [question : {"missing", "q"}, options : {Missing} \cup OptionArrays]

\* Inputs of a tool_use block named AskUserQuestion.
AskInputs ==
    {[questions |-> Missing], [questions |-> Arr(<<>>)]}
    \cup {[questions |-> Arr(<<q>>)] : q \in Questions}
    \cup {[questions |-> Arr(<<q, [question |-> "q", options |-> Arr(<<[label |-> "l"]>>)]>>)] :
                q \in Questions}

\* ContentBlock: Thinking, Text, ToolUse { id, name, input }.
ToolUse(id, name, input) == [type |-> "tool_use", id |-> id, name |-> name, input |-> input]

FirstBlocks ==
    {[type |-> "thinking"], [type |-> "text"]}
    \cup {ToolUse(id, "AskUserQuestion", input) : id \in ToolIds, input \in AskInputs}
    \cup {ToolUse(id, "Bash", [questions |-> Missing]) : id \in ToolIds}

\* The request input with one question and one labelled option.
AskInput == [questions |-> Arr(<<[question |-> "q", options |-> Arr(<<[label |-> "l"]>>)]>>)]

\* Blocks of the messages that have several blocks.
Blocks ==
    {[type |-> "thinking"], [type |-> "text"]}
    \cup {ToolUse(id, "Bash", [questions |-> Missing]) : id \in ToolIds}
    \cup {ToolUse("tu2", "AskUserQuestion", AskInput)}

\* message.content of an Assistant event: up to MaxBlocks blocks.
Contents ==
    {<<>>} \cup {<<b>> : b \in FirstBlocks}
    \cup (IF MaxBlocks >= 2 THEN {<<b, c>> : b \in Blocks, c \in Blocks} ELSE {})
    \cup (IF MaxBlocks >= 3 THEN {<<b, c, d>> : b \in Blocks, c \in Blocks, d \in Blocks} ELSE {})

\* message.content of a User event: tool results.
ToolResults ==
    {<<>>} \cup {<<[tool_use_id |-> id]>> : id \in ToolIds}
    \cup {<<[tool_use_id |-> id], [tool_use_id |-> jd]>> : id \in ToolIds, jd \in ToolIds}

\* What parse_claude_event makes of a line: None ("unparsed"), or a ClaudeEvent.
ClaudeEvents ==
    {[type |-> "unparsed"], [type |-> "result"]}
    \cup {[type |-> "system", subtype |-> st] : st \in {"init", "other"}}
    \cup {[type |-> "assistant", id |-> m, content |-> c] : m \in MessageIds, c \in Contents}
    \cup {[type |-> "user", content |-> c] : c \in ToolResults}

\* ToolCallTracker::start_tool: insert, replacing an entry with the same id.
start_tool(active_tools, id, name, message_id, instant) ==
    MapPut(active_tools, id, [name |-> name, start |-> instant, message_id |-> message_id])

\* Variant: complete_tool reads the entry and leaves it in the map.
complete_tool_keep(active_tools, id, instant) ==
    IF id \in DOMAIN active_tools
    THEN [active_tools |-> active_tools,
          info |-> Some([name |-> active_tools[id].name,
                         duration_ms |-> instant - active_tools[id].start,
                         message_id |-> active_tools[id].message_id])]
    ELSE [active_tools |-> active_tools, info |-> {}]

\* ToolCallTracker::complete_tool: remove the entry and map it to the elapsed time.
complete_tool(active_tools, id, instant) ==
    IF id \in DOMAIN active_tools
    THEN [active_tools |-> MapDel(active_tools, id),
          info |-> Some([name |-> active_tools[id].name,
                         duration_ms |-> instant - active_tools[id].start,
                         message_id |-> active_tools[id].message_id])]
    ELSE [active_tools |-> active_tools, info |-> {}]

\* The options that have a string label (filter_map over options_array).
labelled(options_array) ==
    SelectSeq(options_array, LAMBDA opt : opt.label # "missing")

\* Variant: the request is built whatever options are left.
parse_ask_user_question_any(tool_id, input, message_id) ==
    IF input.questions.kind # "array" THEN {}
    ELSE IF input.questions.items = <<>> THEN {}
    ELSE LET first_question == Head(input.questions.items)
         IN  IF first_question.question = "missing" THEN {}
             ELSE IF first_question.options.kind # "array" THEN {}
             ELSE Some([event |-> "UserInputRequest", tool_id |-> tool_id,
                        question |-> first_question.question,
                        options |-> labelled(first_question.options.items),
                        message_id |-> message_id])

\* parse_ask_user_question: Option<StructuredEvent>.
parse_ask_user_question(tool_id, input, message_id) ==
    IF input.questions.kind # "array" THEN {}
    ELSE IF input.questions.items = <<>> THEN {}
    ELSE LET first_question == Head(input.questions.items)
         IN  IF first_question.question = "missing" THEN {}
             ELSE IF first_question.options.kind # "array" THEN {}
             ELSE IF labelled(first_question.options.items) = <<>> THEN {}
             ELSE Some([event |-> "UserInputRequest", tool_id |-> tool_id,
                        question |-> first_question.question,
                        options |-> labelled(first_question.options.items),
                        message_id |-> message_id])

\* Variant: the last block of the message decides.
significant_block_last(content) == content[Len(content)]

\* for block in content { match block { each arm returns } }: the block that is
\* reached is the first one.
significant_block(content) == Head(content)

\* The ClaudeEvent::Assistant arm: set the current message id and return the
\* event of the block that is reached; a ToolUse block is registered first.
assistant_event(line, d, instant) ==
    LET d1 == [d EXCEPT !.current_message_id = Some(line.id)]
    IN  IF line.content = <<>>
        THEN [d1 EXCEPT !.event = [event |-> "None"]]
        ELSE LET block == significant_block(line.content)
                 ask == IF block.type = "tool_use" /\ block.name = "AskUserQuestion"
                        THEN parse_ask_user_question(block.id, block.input, line.id)
                        ELSE {}
             IN  CASE block.type = "thinking" ->
                        [d1 EXCEPT !.event = [event |-> "Thinking", message_id |-> line.id]]
                   [] block.type = "text" ->
                        [d1 EXCEPT !.event = [event |-> "Text", message_id |-> line.id]]
                   [] block.type = "tool_use" ->
                        [d1 EXCEPT
                            !.tool_tracker = start_tool(@, block.id, block.name, line.id, instant),
                            !.event = IF ask # {}
                                      THEN CHOOSE e \in ask : TRUE
                                      ELSE [event |-> "ToolStart", tool_id |-> block.id,
                                            tool_name |-> block.name,
                                            tool_input |-> block.input,
                                            message_id |-> line.id]]

\* The ClaudeEvent::User arm: the first tool result completes its tool call.
user_event(line, d, instant) ==
    IF line.content = <<>>
    THEN [d EXCEPT !.event = [event |-> "None"]]
    ELSE LET tool_use_id == Head(line.content).tool_use_id
             done == complete_tool(d.tool_tracker, tool_use_id, instant)
         IN  [d EXCEPT
                !.tool_tracker = done.active_tools,
                !.event = [event |-> "ToolComplete", tool_id |-> tool_use_id,
                           duration_ms |-> {i.duration_ms : i \in done.info}]]

\* parse_and_process_json after parse_claude_event: the match on the event.
\* Gives the event, the tracker and the current message id after the line.
process_claude_event(line, d, instant) ==
    CASE line.type = "unparsed" ->
            [d EXCEPT !.event = [event |-> "None"]]
      [] line.type = "system" ->
            [d EXCEPT !.event = IF line.subtype = "init" THEN [event |-> "Init"] ELSE [event |-> "None"]]
      [] line.type = "result" ->
            [d EXCEPT !.event = [event |-> "Complete"]]
      [] line.type = "assistant" -> assistant_event(line, d, instant)
      [] line.type = "user" -> user_event(line, d, instant)

\* The streamer decodes the next stdout line; some time has passed since the
\* line before.
ProcessLine(line) ==
    /\ decoder.ndecoded < MaxDecodes
    /\ \E elapsed \in 0..1 :
            decoder' = [process_claude_event(line, decoder, decoder.clock + elapsed) EXCEPT
                            !.line = line,
                            !.clock = decoder.clock + elapsed,
                            !.ndecoded = @ + 1]
    /\ UNCHANGED <<handles, metadata, procs, streamer, db, call, ret, ncalls, nlines,
                   emitted, owner, messages, now, inserting, mutex, reg, nreg>>

DecodeNext == \E line \in ClaudeEvents : ProcessLine(line)

DecodeSpec == Init /\ [][DecodeNext]_vars

\* ------------------------------------------------------------------- next
CommandStep(t) ==
    \/ \E n \in Nodes : SpawnAgent(t, n)
    \/ SpLive(t)
    \/ SpFail(t)
    \/ SpResume(t)
    \/ PmCheck(t)
    \/ PmAdapterErr(t)
    \/ PmAdapterOk(t)
    \/ PmInsert(t)
    \/ Upsert(t)
    \/ Take(t)
    \/ \E n \in Nodes : ResumeAgentWithInput(t, n)
    \/ Wait(t)
    \/ WaitFinal(t)
    \/ \E s \in {procs[p].id : p \in DOMAIN procs} \cup {FreshId(0)} : TerminateAgent(t, s)
    \/ \E n \in Nodes : TerminateAgentForNode(t, n)
    \/ Find(t)
    \/ Term(t)
    \/ TermKill(t)
    \/ \E n \in Nodes : GetAgentStatus(t, n)
    \/ GsCheck(t)
    \/ GsFix(t)
    \/ GsReread(t)
    \/ ListActiveAgents(t)
    \/ \E ns \in SUBSET Nodes : GetAgentStatusesBatch(t, ns)

AdapterStep(p) ==
    \/ ReaderSend(p)
    \/ MarkerSend(p)
    \/ StartedSend(p)
    \/ ReaderEof(p)

StreamerStep(i) ==
    \/ StreamerRecv(i)
    \/ StreamerClosed(i)
    \/ StreamerCleanup(i)

\* Commands are synchronous and are served one at a time by MainThread.
Next ==
    \/ CommandStep(MainThread)
    \/ \E p \in DOMAIN procs : AdapterStep(p)
    \/ \E i \in DOMAIN streamer : StreamerStep(i)

Spec == Init /\ [][Next]_vars

\* The spawn and termination commands called from several threads at once
\* (MaxConcCalls invocations in all).
ConcCommandStep(t) ==
    \/ \E n \in Nodes : SpawnAgent(t, n)
    \/ SpLive(t)
    \/ SpFail(t)
    \/ SpResume(t)
    \/ PmCheck(t)
    \/ PmAdapterErr(t)
    \/ PmAdapterOk(t)
    \/ PmInsert(t)
    \/ Upsert(t)
    \/ Take(t)
    \/ \E s \in {procs[p].id : p \in DOMAIN procs} \cup {FreshId(0)} : TerminateAgent(t, s)
    \/ \E n \in Nodes : TerminateAgentForNode(t, n)
    \/ Find(t)
    \/ Term(t)
    \/ TermKill(t)

ConcNext ==
    \/ \E t \in Callers : ConcCommandStep(t) /\ ncalls' <= MaxConcCalls
    \/ \E p \in DOMAIN procs : AdapterStep(p)
    \/ \E i \in DOMAIN streamer : StreamerStep(i)

ConcSpec == Init /\ [][ConcNext]_vars

\* Spawning and terminating on MainThread, with the threads scheduled fairly:
\* a command that has started runs to its end, and every streamer thread runs.
LiveNext ==
    \/ ConcCommandStep(MainThread)
    \/ \E p \in DOMAIN procs : AdapterStep(p)
    \/ \E i \in DOMAIN streamer : StreamerStep(i)

CommandProgress(t) ==
    \/ SpLive(t) \/ SpFail(t) \/ SpResume(t)
    \/ PmCheck(t) \/ PmAdapterErr(t) \/ PmAdapterOk(t) \/ PmInsert(t) \/ Upsert(t) \/ Take(t)
    \/ Find(t) \/ Term(t) \/ TermKill(t)

FairSpec ==
    /\ Init /\ [][LiveNext]_vars
    /\ WF_vars(CommandProgress(MainThread))
    /\ \A i \in 1..MaxProcs : WF_vars(i \in DOMAIN streamer /\ StreamerStep(i))

\* ------------------------------------ ProcessManager at the grain of lock()
\* Each Mutex::lock() is a step of its own: it waits until the mutex is free,
\* and never returns for the thread that already holds the mutex.  A guard is
\* released where its scope ends (on an early return too).

\* The ProcessManager methods a thread can be asked to run.
Methods == {"spawn_agent", "get_session_for_node", "terminate_agent",
            "terminate_agent_for_node", "take_receiver", "remove_handle"}

\* Where each method starts: at its first lock().
Entry(op) ==
    CASE op = "spawn_agent" -> "sp_lock_h"
      [] op = "get_session_for_node" -> "gs_lock_h"
      [] op = "terminate_agent" -> "ta_lock_h"
      [] op = "terminate_agent_for_node" -> "tn_lock_h"
      [] op = "take_receiver" -> "tr_lock_h"
      [] op = "remove_handle" -> "rh_lock_h"

\* The mutex each lock() call takes, and where the method continues with it.
LockCalls ==
    [sp_lock_h  |-> [m |-> "handles",  next |-> "sp_check"],
     sp_lock_h2 |-> [m |-> "handles",  next |-> "sp_insert_h"],
     sp_lock_m  |-> [m |-> "metadata", next |-> "sp_insert_m"],
     gs_lock_h  |-> [m |-> "handles",  next |-> "gs_lock_m"],
     gs_lock_m  |-> [m |-> "metadata", next |-> "gs_find"],
     ta_lock_h  |-> [m |-> "handles",  next |-> "ta_lock_m"],
     ta_lock_m  |-> [m |-> "metadata", next |-> "ta_body"],
     tn_lock_h  |-> [m |-> "handles",  next |-> "tn_find"],
     tr_lock_h  |-> [m |-> "handles",  next |-> "tr_take"],
     rh_lock_h  |-> [m |-> "handles",  next |-> "rh_remove"]]

\* The guards of thread t are dropped.
Unlocked(t) == [m \in DOMAIN mutex |-> IF mutex[m] = t THEN NoOwner ELSE mutex[m]]

\* The method of thread t returns.
Returns(t) == reg' = [reg EXCEPT ![t] = NoMethod]

\* Thread t moves on inside its method.
Goto(t, pc) == reg' = [reg EXCEPT ![t].pc = pc]

\* What the lock-grain steps leave alone.
RegistryOnly ==
    UNCHANGED <<streamer, db, call, ret, ncalls, nlines, emitted, owner, messages, now,
                inserting, decoder>>

\* A thread calls a ProcessManager method.
CallMethod(t, op, n, s) ==
    /\ reg[t].pc = "idle"
    /\ nreg < MaxRegCalls
    /\ nreg' = nreg + 1
    /\ reg' = [reg EXCEPT ![t] = [op |-> op, pc |-> Entry(op), node |-> n, sid |-> s, proc |-> 0]]
    /\ UNCHANGED <<handles, metadata, procs, mutex>>
    /\ RegistryOnly

\* Mutex::lock(): blocks while the mutex is held, by whichever thread.
Lock(t) ==
    /\ reg[t].pc \in DOMAIN LockCalls
    /\ mutex[LockCalls[reg[t].pc].m] = NoOwner
    /\ mutex' = [mutex EXCEPT ![LockCalls[reg[t].pc].m] = t]
    /\ Goto(t, LockCalls[reg[t].pc].next)
    /\ UNCHANGED <<handles, metadata, procs, nreg>>
    /\ RegistryOnly

\* spawn_agent, first block: the already-running check; the guard is dropped at
\* the end of the block and by the early return.
RegSpawnCheck(t) ==
    /\ reg[t].pc = "sp_check"
    /\ mutex' = Unlocked(t)
    /\ IF HandlesOfNode(reg[t].node) # {} THEN Returns(t) ELSE Goto(t, "sp_adapter")
    /\ UNCHANGED <<handles, metadata, procs, nreg>>
    /\ RegistryOnly

\* adapter.spawn(config)?, with no mutex held.
RegSpawnAdapter(t) ==
    /\ reg[t].pc = "sp_adapter"
    /\ \/ /\ Len(procs) < MaxProcs
          /\ procs' = Append(procs, [node_id |-> reg[t].node, id |-> FreshId(Len(procs) + 1),
                                     out |-> <<>>, started |-> FALSE, eof |-> FALSE])
          /\ reg' = [reg EXCEPT ![t].pc = "sp_lock_h2", ![t].proc = Len(procs) + 1]
       \/ /\ Returns(t)
          /\ procs' = procs
    /\ UNCHANGED <<handles, metadata, mutex, nreg>>
    /\ RegistryOnly

\* spawn_agent, second block: handles.insert under the handles guard.
RegSpawnInsertHandle(t) ==
    /\ reg[t].pc = "sp_insert_h"
    /\ LET p == reg[t].proc
       IN  /\ handles' = MapPut(handles, procs[p].id,
                                [proc |-> p, node_id |-> procs[p].node_id, output_rx |-> TRUE])
           /\ procs' = DropHandle(procs, procs[p].id)
    /\ Goto(t, "sp_lock_m")
    /\ UNCHANGED <<metadata, mutex, nreg>>
    /\ RegistryOnly

\* spawn_agent, second block: metadata.insert, then both guards are dropped.
RegSpawnInsertMetadata(t) ==
    /\ reg[t].pc = "sp_insert_m"
    /\ metadata' = metadata \cup {procs[reg[t].proc].id}
    /\ mutex' = Unlocked(t)
    /\ Returns(t)
    /\ UNCHANGED <<handles, procs, nreg>>
    /\ RegistryOnly

\* get_session_for_node: the lookup under both guards.
RegGetSession(t) ==
    /\ reg[t].pc = "gs_find"
    /\ mutex' = Unlocked(t)
    /\ Returns(t)
    /\ UNCHANGED <<handles, metadata, procs, nreg>>
    /\ RegistryOnly

\* terminate_agent under both guards: adapter.terminate(handle)? and the two
\* removals, or NotFound.
RegTerminate(t) ==
    /\ reg[t].pc = "ta_body"
    /\ IF reg[t].sid \in DOMAIN handles
       THEN \/ terminate_agent(reg[t].sid)
            \/ UNCHANGED <<handles, metadata, procs>>
       ELSE UNCHANGED <<handles, metadata, procs>>
    /\ mutex' = Unlocked(t)
    /\ Returns(t)
    /\ UNCHANGED nreg
    /\ RegistryOnly

\* Variant: the handles guard is still alive when terminate_agent is called.
RegTerminateForNodeFind_hold(t) ==
    /\ reg[t].pc = "tn_find"
    /\ IF HandlesOfNode(reg[t].node) # {}
       THEN \E s \in HandlesOfNode(reg[t].node) :
                reg' = [reg EXCEPT ![t].pc = Entry("terminate_agent"), ![t].sid = s]
       ELSE Returns(t)
    /\ mutex' = IF HandlesOfNode(reg[t].node) # {} THEN mutex ELSE Unlocked(t)
    /\ UNCHANGED <<handles, metadata, procs, nreg>>
    /\ RegistryOnly

\* terminate_agent_for_node: the lookup in a block of its own, whose guard is
\* dropped before self.terminate_agent(&id) is called.
RegTerminateForNodeFind(t) ==
    /\ reg[t].pc = "tn_find"
    /\ IF HandlesOfNode(reg[t].node) # {}
       THEN \E s \in HandlesOfNode(reg[t].node) :
                reg' = [reg EXCEPT ![t].pc = Entry("terminate_agent"), ![t].sid = s]
       ELSE Returns(t)
    /\ mutex' = Unlocked(t)
    /\ UNCHANGED <<handles, metadata, procs, nreg>>
    /\ RegistryOnly

\* take_receiver: handle.take_receiver() under the handles guard.
RegTakeReceiver(t) ==
    /\ reg[t].pc = "tr_take"
    /\ handles' = IF reg[t].sid \in DOMAIN handles
                  THEN [handles EXCEPT ![reg[t].sid].output_rx = FALSE]
                  ELSE handles
    /\ mutex' = Unlocked(t)
    /\ Returns(t)
    /\ UNCHANGED <<metadata, procs, nreg>>
    /\ RegistryOnly

\* remove_handle: handles.remove under the handles guard.
RegRemoveHandle(t) ==
    /\ reg[t].pc = "rh_remove"
    /\ handles' = MapDel(handles, reg[t].sid)
    /\ procs' = DropHandle(procs, reg[t].sid)
    /\ mutex' = Unlocked(t)
    /\ Returns(t)
    /\ UNCHANGED <<metadata, nreg>>
    /\ RegistryOnly

\* A step of thread t inside a method.
MethodStep(t) ==
    \/ Lock(t)
    \/ RegSpawnCheck(t)
    \/ RegSpawnAdapter(t)
    \/ RegSpawnInsertHandle(t)
    \/ RegSpawnInsertMetadata(t)
    \/ RegGetSession(t)
    \/ RegTerminate(t)
    \/ RegTerminateForNodeFind(t)
    \/ RegTakeReceiver(t)
    \/ RegRemoveHandle(t)

\* Session ids a caller can pass: those handed out so far and one never handed out.
KnownIds == {procs[p].id : p \in DOMAIN procs} \cup {FreshId(0)}

LockNext ==
    \/ \E t \in Threads, op \in Methods, n \in Nodes, s \in KnownIds :
            /\ CallMethod(t, op, IF op \in {"spawn_agent", "get_session_for_node",
                                            "terminate_agent_for_node"} THEN n ELSE "",
                          IF op \in {"terminate_agent", "take_receiver", "remove_handle"}
                          THEN s ELSE EmptyId)
    \/ \E t \in Threads : MethodStep(t)

\* MaxRegCalls calls from the threads, in any interleaving of their lock()
\* calls, with every thread scheduled: a thread that can take a step of its
\* method eventually does.
LockSpec ==
    /\ Init /\ [][LockNext]_vars
    /\ \A t \in Threads : WF_vars(MethodStep(t))

\* ================================================================= claims
Queries == {"get_agent_status", "list_active_agents", "get_agent_statuses_batch"}

\* The success flags of the completion notifications a streamer has emitted.
Successes(notifs) == [k \in DOMAIN notifs |-> notifs[k].success]

\* A command returned in this step.
Returned == ret'.seq # ret.seq

\* Streamer i takes the output at the head of its channel in this step.
Receives(i) ==
    /\ streamer[i].st = "draining"
    /\ Len(procs'[streamer[i].rx].out) < Len(procs[streamer[i].rx].out)

Received(i) == Head(procs[streamer[i].rx].out)

\* Streamer i leaves its loop in this step.
LoopEnds(i) == streamer[i].st = "draining" /\ streamer'[i].st = "ending"

\* The handle the registry holds for process p, if any.
HandleOfProc(p) == {s \in DOMAIN handles : handles[s].proc = p}

\* C1: the registry never holds two live handles with the same node id.
C1_OneHandlePerNode ==
    \A s1 \in DOMAIN handles : \A s2 \in DOMAIN handles :
        handles[s1].node_id = handles[s2].node_id => s1 = s2

\* C2: a streamer whose loop has ended removes its session's handle from the
\* registry, and once a process's channel has closed the registry eventually
\* holds no handle for that process.
C2_StreamerRemovesHandle ==
    /\ [][\A i \in DOMAIN streamer :
            (streamer[i].st = "ending" /\ streamer'[i].st = "done")
                => procs[i].id \notin DOMAIN handles']_vars
    /\ \A p \in 1..MaxProcs :
            (p \in DOMAIN procs /\ ChannelClosed(p)) ~> (HandleOfProc(p) = {})

\* A streamer has finished and removed the handle while the metadata entry,
\* which only termination removes, is still there.
C2_Witness ==
    \E i \in DOMAIN streamer :
        /\ streamer[i].st = "done"
        /\ ChannelClosed(i)
        /\ procs[i].id \in metadata
        /\ procs[i].id \notin DOMAIN handles

\* C3: a status query never returns Running for a node without a live handle.
C3_NoRunningWithoutHandle ==
    [][(Returned /\ ret'.op \in Queries)
        => \A s \in ret'.res.sessions :
                s.status = "running" => HandlesOfNode(s.node_id)' # {}]_vars

\* C4: when the loop ends by channel closure, the status becomes Pending with
\* no completion notification if a UserInputRequest was decoded before, and
\* Completed with one success notification otherwise.
C4_ClosureOutcome ==
    [][\A i \in DOMAIN streamer :
            (LoopEnds(i) /\ streamer'[i].how = "closed")
                => IF streamer[i].saw_uir
                   THEN /\ db'[procs[i].node_id].status = "pending"
                        /\ streamer'[i].notifs = <<>>
                   ELSE /\ db'[procs[i].node_id].status = "completed"
                        /\ Successes(streamer'[i].notifs) = <<TRUE>>]_vars

\* A closure after a UserInputRequest left the session Pending, unannounced.
C4_Witness ==
    \E i \in DOMAIN streamer :
        /\ streamer[i].st = "ending"
        /\ streamer[i].how = "closed"
        /\ streamer[i].saw_uir
        /\ streamer[i].notifs = <<>>
        /\ db[procs[i].node_id].status = "pending"

\* C5: a streamer emits agent:complete at most once, and when its loop has
\* ended it has emitted exactly once unless it ended by closure with the
\* pending flag set, in which case it has emitted nothing.
C5_CompleteOnce ==
    \A i \in DOMAIN streamer :
        /\ Len(streamer[i].notifs) <= 1
        /\ streamer[i].st = "ending" =>
              IF streamer[i].how = "closed" /\ streamer[i].pending_user_input
              THEN streamer[i].notifs = <<>>
              ELSE Len(streamer[i].notifs) = 1

\* A streamer without a pending request ended by closure and emitted once.
C5_Witness ==
    \E i \in DOMAIN streamer :
        /\ streamer[i].st = "ending"
        /\ streamer[i].how = "closed"
        /\ ~streamer[i].pending_user_input
        /\ Successes(streamer[i].notifs) = <<TRUE>>

\* C6: when the streamer has processed a stdout line that decodes to a Result
\* (Complete) event, the status is Completed and a success notification has
\* been emitted, without waiting for the channel to close.
C6_ResultCompletes ==
    [][\A i \in DOMAIN streamer :
            (Receives(i) /\ Received(i).output_type = "stdout"
                         /\ parse_and_process_json(Received(i)).event = "Complete")
                => /\ db'[procs[i].node_id].status = "completed"
                   /\ Successes(streamer'[i].notifs) = <<TRUE>>]_vars

\* C7: processing an Init event with a non-empty id leaves that id in the
\* node's session record at the end of the same iteration; an Init event with
\* an empty id leaves the record as it was and the streamer draining.
C7_InitIdWritten ==
    [][\A i \in DOMAIN streamer :
            (Receives(i) /\ structured_event(Received(i)).event = "Init")
                => LET id == structured_event(Received(i)).session_id
                       n == procs[i].node_id
                   IN  IF id # EmptyId
                       THEN db'[n].present /\ db'[n].claude_session_id = id
                       ELSE db'[n] = db[n] /\ streamer'[i].st = "draining"]_vars

\* The record of a node carries an announced id while its streamer drains.
C7_Witness ==
    \E i \in DOMAIN streamer :
        /\ streamer[i].st = "draining"
        /\ db[procs[i].node_id].claude_session_id \in ExtIds(procs[i].node_id)
        /\ db[procs[i].node_id].id = procs[i].id

\* C8: the upsert after a successful spawn leaves the node's record Running
\* with the new session id and no external id, whether or not a record
\* existed; a streamer is started, and success returned, only after it.
C8_UpsertBeforeStreaming ==
    [][\A t \in Callers :
            /\ (call[t].pc = "upsert" /\ call'[t].pc = "take")
                  => /\ db'[call[t].node].present
                     /\ db'[call[t].node].status = "running"
                     /\ db'[call[t].node].claude_session_id = EmptyId
                     /\ db'[call[t].node].id = procs[call[t].proc].id
            /\ \A i \in DOMAIN streamer :
                  (streamer[i].st = "none" /\ streamer'[i].st = "draining" /\ call[t].proc = i)
                      => call[t].pc = "take" /\ call[t].upserted
            /\ (Returned /\ call[t].pc # "idle" /\ ret'.res.ok
                         /\ ret'.op \in {"spawn_agent", "resume_agent_with_input"})
                  => call[t].upserted]_vars

\* A resume is past its upsert: the record that had ended, and had carried an
\* external id, is Running again with the external id unset.
C8_Witness ==
    \E t \in Callers :
        /\ call[t].op = "resume_agent_with_input"
        /\ call[t].pc = "take"
        /\ db[call[t].node].ended
        /\ db[call[t].node].status = "running"
        /\ db[call[t].node].claude_session_id = EmptyId

\* The resume command of caller t is between its wait and its return.
Resuming(t) == call[t].op = "resume_agent_with_input" /\ call[t].pc \notin {"idle", "find", "wait", "wait_final"}

\* C9: resume leaves its wait for the spawn only with the non-empty external
\* id it has just read, every process it spawns carries exactly that id, and
\* when the last poll still finds no id it returns an error without having
\* attempted a spawn.
C9_ResumeNeedsExternalId ==
    [][\A t \in Callers :
            /\ (call[t].pc \in {"wait", "wait_final"} /\ call'[t].pc = "pm_check")
                  => /\ db[call[t].node].present
                     /\ db[call[t].node].claude_session_id # EmptyId
                     /\ call'[t].resume = db[call[t].node].claude_session_id
                     /\ call[t].tries = 0
            /\ (call[t].pc \in {"wait", "wait_final"} /\ call'[t].pc = "idle")
                  => /\ call[t].pc = "wait_final"
                     /\ call[t].poll = Len(delays_ms)
                     /\ ~(db[call[t].node].present /\ db[call[t].node].claude_session_id # EmptyId)
                     /\ call[t].tries = 0
                     /\ ~ret'.res.ok
            /\ (call[t].pc = "wait_final" /\ db[call[t].node].claude_session_id = EmptyId
                    /\ call'[t] # call[t])
                  => call'[t].pc = "idle" /\ ~ret'.res.ok
            /\ (Resuming(t) /\ call[t].tries > 0)
                  => call[t].resume # EmptyId
            /\ (Resuming(t) /\ call[t].pc = "pm_adapter" /\ call'[t].pc = "pm_insert")
                  => procs'[call'[t].proc].id = call[t].resume]_vars

\* A resume has spawned a process under the external id it read.
C9_Witness ==
    \E t \in Callers :
        /\ call[t].op = "resume_agent_with_input"
        /\ call[t].pc = "pm_insert"
        /\ call[t].resume \in ExtIds(call[t].node)
        /\ procs[call[t].proc].id = call[t].resume

\* C10: one resume call attempts at most max_retries spawns, makes a further
\* attempt only after a transient failure and after sleeping the retry delay,
\* and a transient failure of the first attempt is followed by a second
\* attempt at least 500 ms later.
C10_BoundedRetries ==
    [][\A t \in Callers : call[t].op = "resume_agent_with_input" =>
            /\ call[t].tries <= max_retries
            /\ call[t].tries <= call[t].attempt + 1
            /\ call[t].attempt > 0
                  => /\ is_transient(call[t].last_error)
                     /\ call[t].slept = retry_delays_ms[call[t].attempt]
                     /\ call[t].slept >= 500
            /\ (call[t].pc \in {"pm_check", "pm_adapter"} /\ call'[t].pc = "pm_check"
                    /\ call'[t] # call[t])
                  => /\ call'[t].attempt = call[t].attempt + 1
                     /\ is_transient(call'[t].last_error)
            /\ (call[t].pc \in {"pm_check", "pm_adapter"} /\ call'[t].pc = "idle")
                  => /\ ~ret'.res.ok
                     /\ is_transient(ret'.res.error) => call[t].attempt = max_retries - 1]_vars

\* The first attempt failed with a 503 and the second is due after 500 ms.
C10_Witness ==
    \E t \in Callers :
        /\ call[t].op = "resume_agent_with_input"
        /\ call[t].pc = "pm_check"
        /\ call[t].attempt = 1
        /\ call[t].tries = 1
        /\ call[t].slept = 500
        /\ contains(call[t].last_error, "503")

\* The error texts the spawn attempt of caller t can fail with at its position.
AttemptErrors(t) ==
    IF call[t].pc = "pm_check"
    THEN {to_string(AgentError("AlreadyRunning", <<call[t].node>>))}
    ELSE {to_string(e) : e \in AdapterErrors}

\* C11: a spawn attempt of resume that fails non-transiently, or fails on the
\* last of the max_retries attempts, ends the call with the message of that
\* very error; there is no further attempt after a non-transient failure.
C11_ErrorReturnedVerbatim ==
    [][\A t \in Callers :
            (/\ call[t].op = "resume_agent_with_input"
             /\ call[t].pc \in {"pm_check", "pm_adapter"}
             /\ call'[t] # call[t])
                => /\ call'[t].pc = "idle"
                        => /\ ~ret'.res.ok
                           /\ ret'.res.error \in AttemptErrors(t)
                           /\ is_transient(ret'.res.error) => call[t].attempt = max_retries - 1
                   /\ call'[t].pc = "pm_check"
                        => /\ call'[t].last_error \in AttemptErrors(t)
                           /\ is_transient(call'[t].last_error)
                           /\ call[t].attempt < max_retries - 1
                   /\ call'[t].pc \in {"idle", "pm_check", "pm_adapter", "pm_insert"}]_vars

\* A resume gave up after its last attempt and returned the 503 text itself.
C11_Witness ==
    /\ ret.op = "resume_agent_with_input"
    /\ ~ret.res.ok
    /\ ret.res.error = to_string(AgentError("SpawnError", <<"Claude CLI returned an error:", "503">>))

\* The holders of the receiving end of process q's channel.
ReceiverHolders(q) ==
    {<<"handle", s>> : s \in {x \in DOMAIN handles : handles[x].proc = q /\ handles[x].output_rx}}
    \cup {<<"streamer", i>> : i \in {j \in DOMAIN streamer :
                                        streamer[j].st \in {"draining", "ending"} /\ streamer[j].rx = q}}

SameMessage(i, j) ==
    /\ messages[i].node_id = messages[j].node_id
    /\ messages[i].sender_id = messages[j].sender_id
    /\ messages[i].content = messages[j].content
    /\ messages[i].message_type = messages[j].message_type

\* C13: identical inserts less than window_seconds apart leave one row: no two
\* rows with the same (node, session, content, type) were stored less than
\* window_seconds apart.
C13_OneRowPerWindow ==
    \A i \in DOMAIN messages : \A j \in DOMAIN messages :
        (i < j /\ SameMessage(i, j))
            => messages[j].created_at - messages[i].created_at >= window_seconds

Terminations == {"terminate_agent", "terminate_agent_for_node"}

\* A termination command returns in this step without having found a handle.
TerminatesAbsent ==
    /\ Returned
    /\ ret'.op \in Terminations
    /\ \A t \in Callers : call[t].pc = "term_kill" => call'[t] = call[t]

\* Streamer i runs remove_handle in this step for an id the registry does not hold.
RemovesAbsent(i) ==
    /\ streamer[i].st = "ending"
    /\ streamer'[i].st = "done"
    /\ procs[i].id \notin DOMAIN handles

\* C14 as stated: terminating a session or node that has no entry is not an
\* error and leaves the registry unchanged, and so does remove_handle.
C14_RemovalIdempotent ==
    [][/\ TerminatesAbsent =>
            ret'.res.ok /\ handles' = handles /\ metadata' = metadata
       /\ \A i \in DOMAIN streamer : RemovesAbsent(i) =>
            handles' = handles /\ metadata' = metadata]_vars

\* C14 amended: terminate_agent and terminate_agent_for_node leave the registry
\* unchanged when there is no entry but report NotFound to the caller; only
\* remove_handle on an absent id is silent.
C14_AbsentRemoval ==
    [][/\ TerminatesAbsent =>
            /\ ~ret'.res.ok
            /\ Head(ret'.res.error) = Head(to_string(AgentError("NotFound", <<>>)))
            /\ handles' = handles /\ metadata' = metadata
       /\ \A i \in DOMAIN streamer : RemovesAbsent(i) =>
            handles' = handles /\ metadata' = metadata /\ ret' = ret]_vars

\* A termination was answered NotFound while the registry holds another session,
\* and a streamer ran its cleanup after its handle had been removed.
C14_Witness ==
    /\ ret.op \in Terminations
    /\ ~ret.res.ok
    /\ DOMAIN handles # {}
    /\ \E i \in DOMAIN streamer : streamer[i].st = "done" /\ procs[i].id \notin DOMAIN handles

\* C15: every output a streamer receives is published in the same iteration,
\* once on the topic of its node and then once on the global topic, with the
\* raw output and whatever it decoded to; nothing else is published.
C15_PublishedTwice ==
    [][/\ \A i \in DOMAIN streamer : Receives(i) =>
            LET e == AgentOutputEvent(procs[i].id, procs[i].node_id, Received(i),
                                      structured_event(Received(i)))
            IN  emitted' = << [topic |-> <<"agent:output", procs[i].node_id>>, event |-> e],
                              [topic |-> <<"agent:output">>, event |-> e] >>
       /\ (\A i \in DOMAIN streamer : ~Receives(i)) => emitted' = <<>>]_vars

\* A line that decodes to nothing has just been published on both topics.
C15_Witness ==
    /\ Len(emitted) = 2
    /\ emitted[1].event.structured.event = "None"
    /\ emitted[1].event.output_type = "stdout"
    /\ emitted[2].topic = <<"agent:output">>

\* Streamer i leaves its thread in this step, after remove_handle.
CleansUp(i) == streamer[i].st = "ending" /\ streamer'[i].st = "done"

\* C16: the cleanup of a streamer removes no handle other than the handle of the
\* process it was streaming.
C16_CleanupRemovesOwnHandle ==
    [][\A i \in DOMAIN streamer : CleansUp(i) =>
            \A s \in DOMAIN handles : handles[s].proc # i => s \in DOMAIN handles']_vars

\* Process p is a live session of its node that the row of the node records as
\* running, and its streamer is draining.
RecordedRunning(p) ==
    /\ HandleOfProc(p) # {}
    /\ ~procs[p].eof
    /\ streamer[p].st = "draining"
    /\ db[procs[p].node_id].id = procs[p].id
    /\ db[procs[p].node_id].status = "running"

\* C17: when the loop of an older session's streamer ends while a newer session
\* of the node is recorded as running, the persisted status stays running.
C17_OldStreamerKeepsStatus ==
    [][\A i \in DOMAIN streamer : \A p \in DOMAIN streamer :
            ( /\ i < p
              /\ procs[i].node_id = procs[p].node_id
              /\ LoopEnds(i)
              /\ RecordedRunning(p) )
            => db'[procs[p].node_id].status = "running"]_vars

\* C18: whenever neither mutex is held, a session id has a metadata entry
\* exactly if it has a handle.
C18_MetadataIffHandle ==
    owner = NoOwner => metadata = DOMAIN handles

\* Caller t is inside adapter.spawn (fork and exec of the child) or inside
\* adapter.terminate (child.kill).
InProcessIO(t) == call[t].pc \in {"pm_adapter", "term_kill"}

\* C19: a thread inside process I/O holds neither registry mutex.
C19_NoLockAcrossIO ==
    \A t \in Callers : InProcessIO(t) => owner # t

\* Streamer i receives an output of the Error type in this step.
ReceivesError(i) == Receives(i) /\ Received(i).output_type = "error"

\* C20: on an Error output the streamer marks the record of its node failed,
\* emits exactly one notification, with success false and the content of the
\* output as its message, and leaves the loop; from then on it receives
\* nothing, so whatever was queued behind the error is never published by it.
C20_ErrorEndsStream ==
    [][\A i \in DOMAIN streamer :
          /\ ReceivesError(i) =>
                /\ db'[procs[i].node_id].status = "failed"
                /\ streamer'[i].notifs = <<AgentCompleteEvent(FALSE, Received(i).shape)>>
                /\ streamer'[i].st = "ending"
          /\ streamer[i].how = "error" =>
                /\ streamer'[i].st \in {"ending", "done"}
                /\ Len(streamer'[i].notifs) <= Len(streamer[i].notifs)
                /\ emitted' # <<>> => \E j \in DOMAIN streamer \ {i} : Receives(j)]_vars

\* A streamer has just received an Error output that had another output queued
\* behind it: the record is failed and the one notification carries the content.
C20_Witness ==
    \E i \in DOMAIN streamer :
        /\ streamer[i].st = "ending"
        /\ streamer[i].how = "error"
        /\ Len(emitted) = 2
        /\ emitted[1].event.output_type = "error"
        /\ emitted[1].event.session_id = procs[i].id
        /\ streamer[i].notifs = <<AgentCompleteEvent(FALSE, emitted[1].event.content)>>
        /\ db[procs[i].node_id].status = "failed"
        /\ procs[streamer[i].rx].out # <<>>

\* Caller t's wait for the external session id gives up in this step: the read
\* after the loop finds no id and the command returns the error.
WaitGivesUp(t) == call[t].pc = "wait_final" /\ Returned

\* Reads of the session record made by the wait that gives up: one per
\* iteration of the loop, and the read after the loop made in this step.
WaitReads(t) == call[t].poll + 1

\* C21: a wait that never finds an external id has read the record 8 times and
\* slept 100 + 200 + ... + 800 = 3600 ms when it reports the error.
C21_EightReads ==
    [][\A t \in Callers : WaitGivesUp(t) =>
            WaitReads(t) = 8 /\ call[t].waited = 3600]_vars

\* terminate_agent_for_node returns success in this step: it found a live
\* handle of the node and killed its process.
TerminatedForNode == Returned /\ ret'.op = "terminate_agent_for_node" /\ ret'.res.ok

\* C22: after terminate_agent_for_node on a node with a live agent the status of
\* the node's record is terminated, and it stays terminated until a spawn
\* records a new session for the node.
C22_StatusTerminated ==
    [][/\ TerminatedForNode => db'[ret'.node].status = "terminated"
       /\ \A n \in Nodes :
            db[n].status = "terminated" /\ db'[n].status # "terminated" =>
                \E t \in Callers : call[t].pc = "upsert" /\ call[t].node = n]_vars

\* Caller t enters terminate_agent_for_node in this step.
InvokesTerminateForNode(t) ==
    /\ call[t].pc = "idle"
    /\ call'[t].pc = "find"
    /\ call'[t].op = "terminate_agent_for_node"

\* C23: terminate_agent_for_node on a node without a live handle leaves the
\* record of the node as it was, status and end timestamp included, and
\* answers NotFound.
C23_NotFoundChangesNothing ==
    [][\A t \in Callers :
          /\ InvokesTerminateForNode(t) /\ HandlesOfNode(call'[t].node) = {} =>
                db'[call'[t].node] = db[call'[t].node]
          /\ ( /\ call[t].pc = "find"
               /\ call[t].op = "terminate_agent_for_node"
               /\ call'[t] # call[t]
               /\ HandlesOfNode(call[t].node) = {} ) =>
                /\ Returned
                /\ ~ret'.res.ok
                /\ Head(ret'.res.error) = Head(to_string(AgentError("NotFound", <<>>)))
                /\ db' = db]_vars

\* A session of the same node spawned after process i has been recorded by its
\* upsert: the command is past the upsert, or the session's streamer was started.
LaterRecorded(i) ==
    \E p \in DOMAIN procs :
        /\ p > i
        /\ procs[p].node_id = procs[i].node_id
        /\ \/ p \in DOMAIN streamer /\ streamer[p].st # "none"
           \/ \E t \in Callers : call[t].pc = "take" /\ call[t].proc = p

\* C24: once a later session of the node has been recorded, the streamer of an
\* earlier session does not change the external session id of the record.
C24_OwnStreamerWritesId ==
    [][\A i \in DOMAIN streamer : Receives(i) /\ LaterRecorded(i) =>
            db'[procs[i].node_id].claude_session_id = db[procs[i].node_id].claude_session_id]_vars

\* spawn_agent returns the session of the process it spawned in this step.
SpawnReturns(t) ==
    /\ call[t].pc = "take"
    /\ call[t].op = "spawn_agent"
    /\ call'[t].pc = "idle"

\* C25: a session that spawn_agent has recorded as running and returns to its
\* caller has a streamer thread on its output channel, which is what takes its
\* status out of running when the output ends.
C25_RunningHasStreamer ==
    [][\A t \in Callers : SpawnReturns(t) /\ call[t].upserted =>
            streamer'[call[t].proc].st = "draining"]_vars

\* The line decoded in this step is an Assistant message.
DecodesAssistant == decoder'.ndecoded # decoder.ndecoded /\ decoder'.line.type = "assistant"

\* The kind of event a content block stands for.
EventKinds(block) ==
    CASE block.type = "thinking" -> {"Thinking"}
      [] block.type = "text" -> {"Text"}
      [] block.type = "tool_use" -> {"ToolStart", "UserInputRequest"}

\* C26: an Assistant message sets the current message id and yields the event
\* of its first content block only; the tracker changes only by the
\* registration of a ToolUse in first position, and a message without blocks
\* yields no event.
C26_FirstBlockOnly ==
    [][DecodesAssistant =>
        LET line == decoder'.line
        IN  /\ decoder'.current_message_id = {line.id}
            /\ line.content = <<>> =>
                    /\ decoder'.event = [event |-> "None"]
                    /\ decoder'.tool_tracker = decoder.tool_tracker
            /\ line.content # <<>> =>
                    LET first == Head(line.content)
                    IN  /\ decoder'.event.event \in EventKinds(first)
                        /\ decoder'.event.message_id = line.id
                        /\ first.type = "tool_use" => decoder'.event.tool_id = first.id
                        /\ \A id \in ToolIds :
                              IF first.type = "tool_use" /\ first.id = id
                              THEN /\ id \in DOMAIN decoder'.tool_tracker
                                   /\ decoder'.tool_tracker[id] =
                                        [name |-> first.name, start |-> decoder'.clock,
                                         message_id |-> line.id]
                              ELSE /\ id \in DOMAIN decoder'.tool_tracker <=>
                                        id \in DOMAIN decoder.tool_tracker
                                   /\ id \in DOMAIN decoder.tool_tracker =>
                                        decoder'.tool_tracker[id] = decoder.tool_tracker[id]]_vars

\* A message whose first block is text and whose second block is a ToolUse has
\* been decoded to a Text event, and the tool of the second block is not tracked.
C26_Witness ==
    /\ decoder.line.type = "assistant"
    /\ Len(decoder.line.content) = 2
    /\ decoder.line.content[1].type = "text"
    /\ decoder.line.content[2].type = "tool_use"
    /\ decoder.event.event = "Text"
    /\ decoder.line.content[2].id \notin DOMAIN decoder.tool_tracker

\* The line decoded in this step starts tool id: an Assistant message whose
\* first block is a ToolUse with that id.
StartsTool(id) ==
    /\ DecodesAssistant
    /\ decoder'.line.content # <<>>
    /\ Head(decoder'.line.content).type = "tool_use"
    /\ Head(decoder'.line.content).id = id

\* The line decoded in this step carries, in first position, a result for tool id.
CompletesTool(id) ==
    /\ decoder'.ndecoded # decoder.ndecoded
    /\ decoder'.line.type = "user"
    /\ decoder'.line.content # <<>>
    /\ Head(decoder'.line.content).tool_use_id = id

\* C27: starting a tracked id replaces its entry and still yields the start
\* event; a result for a tracked id removes the entry and yields a ToolComplete
\* with the elapsed time; a result for an untracked id yields a ToolComplete
\* without a duration and leaves the tracker alone.  A duration is therefore
\* produced once per tracked start at most.
C27_TrackerDurations ==
    [][\A id \in ToolIds :
          /\ StartsTool(id) /\ id \in DOMAIN decoder.tool_tracker =>
                /\ decoder'.event.event \in {"ToolStart", "UserInputRequest"}
                /\ DOMAIN decoder'.tool_tracker = DOMAIN decoder.tool_tracker
                /\ decoder'.tool_tracker[id].start = decoder'.clock
                /\ decoder'.tool_tracker[id].message_id = decoder'.line.id
          /\ CompletesTool(id) =>
                /\ decoder'.event.event = "ToolComplete"
                /\ decoder'.event.tool_id = id
                /\ id \notin DOMAIN decoder'.tool_tracker
                /\ IF id \in DOMAIN decoder.tool_tracker
                   THEN decoder'.event.duration_ms =
                            {decoder'.clock - decoder.tool_tracker[id].start}
                   ELSE /\ decoder'.event.duration_ms = {}
                        /\ decoder'.tool_tracker = decoder.tool_tracker]_vars

\* Two tools were started and the result of one of them has just produced its
\* duration: its entry is gone and the other tool is still tracked.
C27_Witness ==
    /\ decoder.line.type = "user"
    /\ decoder.event.event = "ToolComplete"
    /\ decoder.event.duration_ms = {1}
    /\ decoder.event.tool_id \notin DOMAIN decoder.tool_tracker
    /\ DOMAIN decoder.tool_tracker # {}

\* The line decoded in this step has, in first position, a ToolUse block named
\* AskUserQuestion.
DecodesAsk ==
    /\ DecodesAssistant
    /\ decoder'.line.content # <<>>
    /\ Head(decoder'.line.content).type = "tool_use"
    /\ Head(decoder'.line.content).name = "AskUserQuestion"

\* The input has a non-empty questions array whose first entry has a question
\* text and a non-empty options array.
HasQuestionWithOptions(input) ==
    /\ input.questions.kind = "array"
    /\ input.questions.items # <<>>
    /\ Head(input.questions.items).question # "missing"
    /\ Head(input.questions.items).options.kind = "array"
    /\ Head(input.questions.items).options.items # <<>>

\* Some entry of the first question's options array has a label.
HasLabelledOption(input) ==
    \E k \in DOMAIN Head(input.questions.items).options.items :
        Head(input.questions.items).options.items[k].label # "missing"

\* The call of the block is registered in the tracker after the step.
Registered(block) ==
    /\ block.id \in DOMAIN decoder'.tool_tracker
    /\ decoder'.tool_tracker[block.id].name = block.name

\* C28 as stated: the block yields a UserInputRequest exactly if its input has
\* a non-empty questions array whose first entry has a question text and a
\* non-empty options array, a ToolStart otherwise, and is registered either way.
C28_AskUserQuestion ==
    [][DecodesAsk =>
        LET block == Head(decoder'.line.content)
        IN  /\ decoder'.event.event =
                    IF HasQuestionWithOptions(block.input) THEN "UserInputRequest" ELSE "ToolStart"
            /\ Registered(block)]_vars

\* C28 amended: the options array must also hold at least one entry with a
\* label; entries without one are dropped, and when none is left the block
\* yields a ToolStart.
C28_AskNeedsLabelledOption ==
    [][DecodesAsk =>
        LET block == Head(decoder'.line.content)
        IN  /\ decoder'.event.event =
                    IF HasQuestionWithOptions(block.input) /\ HasLabelledOption(block.input)
                    THEN "UserInputRequest" ELSE "ToolStart"
            /\ decoder'.event.event = "UserInputRequest" =>
                    /\ decoder'.event.options # <<>>
                    /\ \A k \in DOMAIN decoder'.event.options :
                            decoder'.event.options[k].label # "missing"
            /\ decoder'.event.tool_id = block.id
            /\ Registered(block)]_vars

\* An AskUserQuestion whose only option has no label was decoded to a ToolStart
\* and registered, and one whose second option has a label to a request.
C28_Witness ==
    /\ decoder.line.type = "assistant"
    /\ decoder.line.content # <<>>
    /\ Head(decoder.line.content).type = "tool_use"
    /\ Head(decoder.line.content).name = "AskUserQuestion"
    /\ HasQuestionWithOptions(Head(decoder.line.content).input)
    /\ ~HasLabelledOption(Head(decoder.line.content).input)
    /\ decoder.event.event = "ToolStart"
    /\ Head(decoder.line.content).id \in DOMAIN decoder.tool_tracker

\* C29: a persisted session record whose status is Running has no end
\* timestamp, so the record of a new spawn on a node whose previous session
\* had ended does not carry the end timestamp of that previous session.
C29_RunningHasNoEnd ==
    \A n \in DOMAIN db :
        (db[n].present /\ db[n].status = "running") => ~db[n].ended

\* Thread t is inside a ProcessManager method.
InMethod(t) == reg[t].pc # "idle"

\* Thread t is at a lock() call on mutex m.
Locking(t, m) == reg[t].pc \in DOMAIN LockCalls /\ LockCalls[reg[t].pc].m = m

\* Whoever holds the metadata mutex holds the handles mutex, and nobody asks
\* for the handles mutex while holding the metadata mutex.
HandlesBeforeMetadata ==
    \A t \in Threads :
        /\ mutex["metadata"] = t => mutex["handles"] = t
        /\ Locking(t, "handles") => mutex["metadata"] # t

\* No thread asks for a mutex it holds.
NoRelock == \A t \in Threads, m \in DOMAIN mutex : Locking(t, m) => mutex[m] # t

\* C30: registry operations never deadlock: the handles mutex is always taken
\* before the metadata mutex, no method asks for a mutex it already holds, and
\* every spawn_agent, get_session_for_node, terminate_agent,
\* terminate_agent_for_node, take_receiver and remove_handle call that has
\* started returns, whatever the other threads are calling.
C30_RegistryNeverDeadlocks ==
    /\ [](HandlesBeforeMetadata /\ NoRelock)
    /\ \A t \in Threads : InMethod(t) ~> ~InMethod(t)

\* One thread is inside the terminate_agent it called from
\* terminate_agent_for_node and holds both mutexes, while the two other
\* threads wait for the handles mutex, one of them to spawn.
C30_Witness ==
    \E t, u, v \in Threads :
        /\ u # v
        /\ reg[t].op = "terminate_agent_for_node"
        /\ reg[t].pc = "ta_body"
        /\ mutex["handles"] = t /\ mutex["metadata"] = t
        /\ reg[u].op = "spawn_agent" /\ Locking(u, "handles")
        /\ reg[v].op \in {"get_session_for_node", "remove_handle"} /\ Locking(v, "handles")

====
